---- MODULE Spec2Model ----
(***************************************************************************)
(* PiggyList.h: the block-structured growable arrays PiggyList (indices    *)
(* assigned by the container) and RandomInsertPiggyList (indices supplied  *)
(* by the caller).  The model has one heap of blocks, two list objects     *)
(* ("a" constructed first, "b" copy-constructed from it) and a few threads *)
(* that run append / createNode / insertAt one shared-memory step at a     *)
(* time.                                                                   *)
(***************************************************************************)
EXTENDS Integers, Sequences, FiniteSets, TLC

-----------------------------------------------------------------------------
(* Bounds of the exploration.                                              *)

\* calls to append / createNode / insertAt / clear made in one run
MaxOps == 3
\* largest index a caller hands to insertAt
MaxInsertIdx == 2
\* largest small index of the mapping check (block boundaries are added)
MapMaxIdx == 40
\* multiples of the base size around which the mapping check probes
MapMaxMult == 8

Threads == {1, 2}
Lists == {"a", "b"}
\* element values; Uninit is the content of storage nobody has written
Values == {1, 2}
Uninit == 0
AnyValue == Values \cup {Uninit}
\* exponents handed to the constructors that take an initial bit size
BitsSet == {0, 1}

-----------------------------------------------------------------------------
(* Program constants.                                                      *)

\* const size_t BLOCKBITS = 16ul (the default constructors)
DefaultBLOCKBITS == 16
\* static constexpr size_t max_conts = 64 / maxContainers = 64
max_conts == 64
\* width of size_t and of int
SizeBits == 64
IntBits == 32

NULL == 0
Slots == 0 .. (max_conts - 1)

-----------------------------------------------------------------------------
(* Index-to-location mapping, computed as the code computes it.            *)

RECURSIVE HighBit(_)
\* position of the highest set bit of n >= 1
HighBit(n) == IF n <= 1 THEN 0 ELSE 1 + HighBit(n \div 2)

\* __builtin_clzll on a non-zero 64-bit value
Clzll(n) == (SizeBits - 1) - HighBit(n)

RECURSIVE BitAnd(_, _)
\* a & b on non-negative integers
BitAnd(a, b) ==
    IF a = 0 \/ b = 0 THEN 0
    ELSE 2 * BitAnd(a \div 2, b \div 2) + (IF a % 2 = 1 /\ b % 2 = 1 THEN 1 ELSE 0)

\* (1 << blockNum) - 1 with the literal 1 an int: defined while the shift stays
\* below the sign bit; from there on the shift (or the subtraction) overflows
\* and the build may produce the wrapped mask, an empty mask or a full one.
ShiftMask(blockNum) ==
    IF blockNum < IntBits - 1
    THEN {2 ^ blockNum - 1}
    ELSE {0, 2 ^ (blockNum % IntBits) - 1, (2 ^ (IntBits - 2) - 1) + 2 ^ (IntBits - 2)}

\* mutant: the mask is (1 << blockNum), the "- 1" forgotten
PLLocateNoMinus(bits, index) ==
    LET nindex == index + 2 ^ bits
        blockNum == (SizeBits - 1) - Clzll(nindex)
    IN  { <<blockNum - bits, BitAnd(nindex, 2 ^ blockNum)>> }

\* PiggyList::get: the (slot, offset) pairs the expression can evaluate to
PLLocate(bits, index) ==
    LET nindex == index + 2 ^ bits
        blockNum == (SizeBits - 1) - Clzll(nindex)
    IN  { <<blockNum - bits, BitAnd(nindex, m)>> : m \in ShiftMask(blockNum) }

\* RandomInsertPiggyList::get
RILocate(bits, index) ==
    LET nindex == index + 2 ^ bits
        blockNum == (SizeBits - 1) - Clzll(nindex)
    IN  { <<blockNum - bits, BitAnd(nindex, m)>> : m \in ShiftMask(blockNum) }

\* RandomInsertPiggyList::insertAt: the slot that must exist for index
InsertAtBlockNum(bits, index) ==
    ((SizeBits - 1) - Clzll(index + 2 ^ bits)) - bits

-----------------------------------------------------------------------------
(* The same mapping over the whole range of size_t.  A 64-bit value is     *)
(* held as the set of the positions of its 1 bits, so that indices whose   *)
(* highest bit is 31 or more can be fed to the expressions of get().       *)

BitPositions == 0 .. (SizeBits - 1)

RECURSIVE AddBit(_, _)
\* S + (1ul << b) in size_t arithmetic: a carry out of bit 63 is dropped
AddBit(S, b) ==
    IF b >= SizeBits THEN S
    ELSE IF b \in S THEN AddBit(S \ {b}, b + 1)
    ELSE S \cup {b}

\* position of the highest set bit of a non-zero value
HighBit64(S) == CHOOSE b \in S : \A c \in S : c <= b

\* __builtin_clzll
Clzll64(S) == (SizeBits - 1) - HighBit64(S)

\* the bits 0 .. k-1: the value 2^k - 1
LowMask(k) == 0 .. (k - 1)

\* (1 << blockNum) - 1, converted to size_t for the &.  The literal 1 is an
\* int: up to blockNum = 30 the value is 2^blockNum - 1.  From 31 on the
\* shift or the subtraction overflows int, and a shift count of 32 or more
\* is undefined: builds produce the mask of the count taken modulo 32, an
\* empty mask, INT_MAX, or -1 sign-extended to 64 one bits.
ShiftMask64(blockNum) ==
    IF blockNum < IntBits - 1
    THEN { LowMask(blockNum) }
    ELSE { {}, LowMask(blockNum % IntBits), LowMask(IntBits - 1), BitPositions }

\* the mask had the literal been 1ul: computed in size_t, exact up to bit 63
ShiftMask64Wide(blockNum) == { LowMask(blockNum) }

\* PiggyList::get over size_t: the (slot, offset) pairs it can evaluate to
PLLocate64(bits, index) ==
    LET nindex == AddBit(index, bits)
        blockNum == (SizeBits - 1) - Clzll64(nindex)
    IN  { << blockNum - bits, nindex \cap m >> : m \in ShiftMask64(blockNum) }

\* RandomInsertPiggyList::get over size_t
RILocate64(bits, index) ==
    LET nindex == AddBit(index, bits)
        blockNum == (SizeBits - 1) - Clzll64(nindex)
    IN  { << blockNum - bits, nindex \cap m >> : m \in ShiftMask64(blockNum) }

-----------------------------------------------------------------------------
VARIABLES
    variant,            \* "PL": the lists are PiggyLists, "RI": RandomInsertPiggyLists,
                        \* "MAP": only the mapping functions are exercised
    status,             \* "running", "aborted" (failed assert), "crashed"
    BLOCKBITS,          \* per list
    num_containers,     \* PiggyList, per list
    container_size,     \* PiggyList, per list
    m_size,             \* PiggyList, per list
    allocsize,          \* PiggyList, per list
    sl,                 \* PiggyList spin lock: holder thread or 0
    numElements,        \* RandomInsertPiggyList, per list
    slock,              \* RandomInsertPiggyList spin lock: holder thread or 0
    blockLookupTable,   \* per list: slot -> heap pointer (NULL when empty)
    heap,               \* sequence of blocks [size, data, frees]
    pc,                 \* per thread: position inside its call
    call,               \* per thread: the call's object, operation and locals
    origin,             \* per list: "none", "fresh", "copy", "cleared", "dead"
    started,            \* per list: calls begun since construction / clear
    returned,           \* per list: bag of the indices returned since construction / clear
    wlog,               \* per list: bag of the (slot, offset) written since then
    written,            \* per list: index -> value of the latest completed write
    base,               \* per list: size() when constructed / cleared
    snap,               \* the source at copy construction: size and values
    touched,            \* per list: was the list used after the copy was made
    nops,               \* calls started in this run
    mapIn,              \* mapping check: [bits, index]
    mapOut,             \* mapping check: results of the three code paths
    iters               \* iteration check: two iterator objects and their history

vars == << variant, status, BLOCKBITS, num_containers, container_size, m_size,
           allocsize, sl, numElements, slock, blockLookupTable, heap, pc, call,
           origin, started, returned, wlog, written, base, snap, touched, nops,
           mapIn, mapOut, iters >>

plVars == << num_containers, container_size, m_size, allocsize, sl >>
riVars == << numElements, slock >>
mapVars == << mapIn, mapOut, iters >>
histVars == << started, returned, wlog, written, base, snap, touched >>

\* an iterator object: bl is the list it refers to, "unset" before begin() /
\* end() has produced it
NoIter == [bl |-> "unset", cIndex |-> 0]
\* it: the iterator being advanced; e: the result of end(); ret: what the
\* last increment returned; steps: increments applied to it since begin();
\* endSize: size() when end() was called; used: increment operators applied
\* since begin(); seen: the positions at which it was dereferenced since
\* begin(); derefOk: every one of these dereferences read get(steps)
NoIters == [it |-> NoIter, e |-> NoIter, ret |-> NoIter, steps |-> 0, endSize |-> 0,
            used |-> {}, seen |-> {}, derefOk |-> TRUE]

NoCall == [obj |-> "a", op |-> "none", index |-> 0, value |-> 0, blockNum |-> 0]
EmptyTable == [k \in Slots |-> NULL]
EmptyFn == [i \in {} |-> 0]

\* const size_t BLOCKSIZE = (1ul << BLOCKBITS)
BLOCKSIZE(L) == 2 ^ BLOCKBITS[L]
\* const size_t INITIALBLOCKSIZE = (1ul << BLOCKBITS)
INITIALBLOCKSIZE(L) == 2 ^ BLOCKBITS[L]

Alive(L) == origin[L] \in {"fresh", "copy", "cleared"}
InFlight(L) == { t \in Threads : pc[t] # "idle" /\ call[t].obj = L }
Quiescent(L) == InFlight(L) = {}

Put(f, k, v) == [x \in (DOMAIN f) \cup {k} |-> IF x = k THEN v ELSE f[x]]
\* one more occurrence of k in the bag f
Count(f, k) == Put(f, k, IF k \in DOMAIN f THEN f[k] + 1 ELSE 1)
\* a call is handed to the lowest-numbered idle thread (threads are identical)
FirstIdle(t) == pc[t] = "idle" /\ \A u \in Threads : u < t => pc[u] # "idle"

-----------------------------------------------------------------------------
(* The heap.                                                               *)

\* new T[n]: a block of n elements nobody has written
NewBlock(n) == [size |-> n, data |-> [o \in 0 .. (n - 1) |-> Uninit], frees |-> 0]

Live(h, p) == p \in 1 .. Len(h) /\ h[p].frees = 0

\* delete[] on every pointer of ptrs (deleting a nullptr is a no-op)
DeleteAll(h, ptrs) ==
    [p \in 1 .. Len(h) |->
        IF p \in ptrs
        THEN [size |-> h[p].size, data |-> [o \in 0 .. (h[p].size - 1) |-> Uninit],
              frees |-> h[p].frees + 1]
        ELSE h[p]]

\* block[off] = v.  Inside a live block the element is written.  Through a
\* null or dangling pointer, or past the end of the block, the behaviour is
\* undefined: the process may fault, the store may land in memory the
\* model does not hold, or it may land in an element of any live block.
StoreOutcomes(h, p, off, v) ==
    IF Live(h, p) /\ off < h[p].size
    THEN { << [h EXCEPT ![p].data[off] = v], "running" >> }
    ELSE { << h, "crashed" >>, << h, "running" >> }
         \cup UNION { { << [h EXCEPT ![q].data[o] = v], "running" >> :
                          o \in 0 .. (h[q].size - 1) } :
                      q \in { x \in 1 .. Len(h) : h[x].frees = 0 } }

\* the values block[off] can read as
LoadOutcomes(h, p, off) ==
    IF Live(h, p) /\ off < h[p].size THEN { h[p].data[off] } ELSE AnyValue

-----------------------------------------------------------------------------
(* Initial states: list "a" freshly constructed with an explicit bit size, *)
(* list "b" not constructed yet.                                           *)

InitLists(kind, bits) ==
    /\ variant = kind
    /\ status = "running"
    /\ BLOCKBITS = [L \in Lists |-> IF L = "a" THEN bits ELSE 0]
    /\ num_containers = [L \in Lists |-> 0]
    /\ container_size = [L \in Lists |-> 0]
    /\ m_size = [L \in Lists |-> 0]
    /\ allocsize = [L \in Lists |-> IF L = "a" THEN 2 ^ bits ELSE 1]
    /\ sl = [L \in Lists |-> 0]
    /\ numElements = [L \in Lists |-> 0]
    /\ slock = [L \in Lists |-> 0]
    /\ blockLookupTable = [L \in Lists |-> EmptyTable]
    /\ heap = << >>
    /\ pc = [t \in Threads |-> "idle"]
    /\ call = [t \in Threads |-> NoCall]
    /\ origin = [L \in Lists |-> IF L = "a" /\ kind # "MAP" THEN "fresh" ELSE "none"]
    /\ started = [L \in Lists |-> 0]
    /\ returned = [L \in Lists |-> EmptyFn]
    /\ wlog = [L \in Lists |-> EmptyFn]
    /\ written = [L \in Lists |-> EmptyFn]
    /\ base = [L \in Lists |-> 0]
    /\ snap = [size |-> 0, vals |-> EmptyFn]
    /\ touched = [L \in Lists |-> FALSE]
    /\ nops = 0
    /\ iters = NoIters

Init ==
    /\ \E kind \in {"PL", "RI"}, bits \in BitsSet : InitLists(kind, bits)
    /\ mapIn = [bits |-> 0, index |-> 0]
    /\ mapOut = [pl |-> {}, ri |-> {}, ins |-> {}]

-----------------------------------------------------------------------------
(* PiggyList.                                                              *)

\* getBlock(blocknum): the pointer held in the slot
getBlock(L, blocknum) == IF blocknum \in Slots THEN blockLookupTable[L][blocknum] ELSE NULL

\* the values get(index) can read as
PLGetVals(L, index) ==
    UNION { LoadOutcomes(heap, getBlock(L, loc[1]), loc[2]) :
            loc \in PLLocate(BLOCKBITS[L], index) }

\* mutants of fetch_add: the incremented value is returned / the counter is
\* read without being advanced
FetchAddPreInc(v) == [ret |-> v + 1, new |-> v + 1]
FetchAddNoInc(v) == [ret |-> v, new |-> v]
\* m_size.fetch_add(1): the value returned and the value left in the counter
FetchAdd(v) == [ret |-> v, new |-> v + 1]

\* mutant: the comparison is off by one
WillNotFitOffByOne(cs, new_index) == cs < new_index
\* "will this not fit?": container_size < new_index + 1
WillNotFit(cs, new_index) == cs < new_index + 1

\* first statement of append / createNode: reserve an index
Reserve(t, L, op, v) ==
    /\ status = "running" /\ variant = "PL"
    /\ Alive(L) /\ FirstIdle(t) /\ nops < MaxOps
    /\ LET fa == FetchAdd(m_size[L])
       IN  /\ m_size' = [m_size EXCEPT ![L] = fa.new]
           /\ call' = [call EXCEPT ![t] =
                         [obj |-> L, op |-> op, index |-> fa.ret, value |-> v, blockNum |-> 0]]
    /\ pc' = [pc EXCEPT ![t] = "check"]
    /\ nops' = nops + 1
    /\ started' = [started EXCEPT ![L] = @ + 1]
    /\ touched' = [touched EXCEPT ![L] = TRUE]
    /\ UNCHANGED << variant, status, BLOCKBITS, num_containers, container_size,
                    allocsize, sl, riVars, blockLookupTable, heap, origin,
                    returned, wlog, written, base, snap, mapVars >>

append(t, L, v) == Reserve(t, L, "append", v)

createNode(t, L) == Reserve(t, L, "createNode", 0)

\* where a call goes once its index is backed by storage
AfterGrowth(t) == IF call[t].op = "append" THEN "write" ELSE "ret"

\* mutant: every call takes the lock, whether or not its index fits
GrowCheckAlwaysLock(t) ==
    /\ status = "running" /\ pc[t] = "check"
    /\ pc' = [pc EXCEPT ![t] = "lock"]
    /\ UNCHANGED << variant, status, BLOCKBITS, plVars, riVars, blockLookupTable,
                    heap, call, origin, histVars, nops, mapVars >>

\* the unlocked check
GrowCheck(t) ==
    /\ status = "running" /\ pc[t] = "check"
    /\ pc' = [pc EXCEPT ![t] =
                IF WillNotFit(container_size[call[t].obj], call[t].index)
                THEN "lock" ELSE AfterGrowth(t)]
    /\ UNCHANGED << variant, status, BLOCKBITS, plVars, riVars, blockLookupTable,
                    heap, call, origin, histVars, nops, mapVars >>

\* mutant: the lock is taken without waiting for it to be free
LockAcquireNoWait(t) ==
    /\ status = "running" /\ pc[t] = "lock"
    /\ sl' = [sl EXCEPT ![call[t].obj] = t]
    /\ pc' = [pc EXCEPT ![t] = "loop"]
    /\ UNCHANGED << variant, status, BLOCKBITS, num_containers, container_size,
                    m_size, allocsize, riVars, blockLookupTable, heap, call,
                    origin, histVars, nops, mapVars >>

\* sl.lock(): spins until the lock is free
LockAcquire(t) ==
    /\ status = "running" /\ pc[t] = "lock"
    /\ sl[call[t].obj] = 0
    /\ sl' = [sl EXCEPT ![call[t].obj] = t]
    /\ pc' = [pc EXCEPT ![t] = "loop"]
    /\ UNCHANGED << variant, status, BLOCKBITS, num_containers, container_size,
                    m_size, allocsize, riVars, blockLookupTable, heap, call,
                    origin, histVars, nops, mapVars >>

\* the while condition, evaluated under the lock
GrowLoop(t) ==
    /\ status = "running" /\ pc[t] = "loop"
    /\ pc' = [pc EXCEPT ![t] =
                IF WillNotFit(container_size[call[t].obj], call[t].index)
                THEN "alloc" ELSE "unlock"]
    /\ UNCHANGED << variant, status, BLOCKBITS, plVars, riVars, blockLookupTable,
                    heap, call, origin, histVars, nops, mapVars >>

\* blockLookupTable[num_containers] = new T[allocsize]
GrowAlloc(t) ==
    LET L == call[t].obj
    IN  /\ status = "running" /\ pc[t] = "alloc"
        /\ num_containers[L] \in Slots
        /\ heap' = Append(heap, NewBlock(allocsize[L]))
        /\ blockLookupTable' =
              [blockLookupTable EXCEPT ![L][num_containers[L]] = Len(heap) + 1]
        /\ pc' = [pc EXCEPT ![t] = "inc_num"]
        /\ UNCHANGED << variant, status, BLOCKBITS, plVars, riVars, call, origin,
                        histVars, nops, mapVars >>

\* num_containers += 1
GrowIncNum(t) ==
    /\ status = "running" /\ pc[t] = "inc_num"
    /\ num_containers' = [num_containers EXCEPT ![call[t].obj] = @ + 1]
    /\ pc' = [pc EXCEPT ![t] = "inc_size"]
    /\ UNCHANGED << variant, status, BLOCKBITS, container_size, m_size, allocsize,
                    sl, riVars, blockLookupTable, heap, call, origin, histVars,
                    nops, mapVars >>

\* container_size += allocsize
GrowIncSize(t) ==
    /\ status = "running" /\ pc[t] = "inc_size"
    /\ container_size' =
          [container_size EXCEPT ![call[t].obj] = @ + allocsize[call[t].obj]]
    /\ pc' = [pc EXCEPT ![t] = "double"]
    /\ UNCHANGED << variant, status, BLOCKBITS, num_containers, m_size, allocsize,
                    sl, riVars, blockLookupTable, heap, call, origin, histVars,
                    nops, mapVars >>

\* mutant: the next block size is not doubled
GrowNoDouble(t) ==
    /\ status = "running" /\ pc[t] = "double"
    /\ pc' = [pc EXCEPT ![t] = "loop"]
    /\ UNCHANGED << variant, status, BLOCKBITS, plVars, riVars, blockLookupTable,
                    heap, call, origin, histVars, nops, mapVars >>

\* allocsize <<= 1
GrowDouble(t) ==
    /\ status = "running" /\ pc[t] = "double"
    /\ allocsize' = [allocsize EXCEPT ![call[t].obj] = @ * 2]
    /\ pc' = [pc EXCEPT ![t] = "loop"]
    /\ UNCHANGED << variant, status, BLOCKBITS, num_containers, container_size,
                    m_size, sl, riVars, blockLookupTable, heap, call, origin,
                    histVars, nops, mapVars >>

\* sl.unlock()
LockRelease(t) ==
    /\ status = "running" /\ pc[t] = "unlock"
    /\ sl' = [sl EXCEPT ![call[t].obj] = 0]
    /\ pc' = [pc EXCEPT ![t] = AfterGrowth(t)]
    /\ UNCHANGED << variant, status, BLOCKBITS, num_containers, container_size,
                    m_size, allocsize, riVars, blockLookupTable, heap, call,
                    origin, histVars, nops, mapVars >>

\* this->get(new_index) = element
AppendWrite(t) ==
    LET L == call[t].obj
    IN  /\ status = "running" /\ pc[t] = "write"
        /\ \E loc \in PLLocate(BLOCKBITS[L], call[t].index) :
              /\ \E out \in StoreOutcomes(heap, getBlock(L, loc[1]), loc[2], call[t].value) :
                    /\ heap' = out[1]
                    /\ status' = out[2]
              /\ wlog' = [wlog EXCEPT ![L] = Count(@, loc)]
        /\ written' = [written EXCEPT ![L] = Put(@, call[t].index, call[t].value)]
        /\ pc' = [pc EXCEPT ![t] = "ret"]
        /\ UNCHANGED << variant, BLOCKBITS, plVars, riVars, blockLookupTable, call,
                        origin, started, returned, base, snap, touched, nops,
                        mapVars >>

\* return new_index
Return(t) ==
    /\ status = "running" /\ pc[t] = "ret"
    /\ returned' = [returned EXCEPT ![call[t].obj] = Count(@, call[t].index)]
    /\ pc' = [pc EXCEPT ![t] = "idle"]
    /\ call' = [call EXCEPT ![t] = NoCall]
    /\ UNCHANGED << variant, status, BLOCKBITS, plVars, riVars, blockLookupTable,
                    heap, origin, started, wlog, written, base, snap, touched,
                    nops, mapVars >>

\* mutant: freeList() deletes every non-null slot, as RandomInsertPiggyList's does
PLFreeListAllSlots(L) ==
    DeleteAll(heap, { blockLookupTable[L][i] : i \in Slots } \ {NULL})

\* freeList(): delete[] the first num_containers slots, under the lock
PLFreeList(L) ==
    DeleteAll(heap, { blockLookupTable[L][i] : i \in 0 .. (num_containers[L] - 1) })

\* mutant: clear() forgets to reset allocsize
KeepAllocsize(L) == allocsize[L]
\* allocsize = BLOCKSIZE in clear()
ResetAllocsize(L) == BLOCKSIZE(L)

\* clear(), called with no other call in flight on the list
PLClear(L) ==
    /\ status = "running" /\ variant = "PL"
    /\ Alive(L) /\ Quiescent(L) /\ sl[L] = 0 /\ nops < MaxOps
    /\ nops' = nops + 1
    /\ heap' = PLFreeList(L)
    /\ m_size' = [m_size EXCEPT ![L] = 0]
    /\ num_containers' = [num_containers EXCEPT ![L] = 0]
    /\ allocsize' = [allocsize EXCEPT ![L] = ResetAllocsize(L)]
    /\ container_size' = [container_size EXCEPT ![L] = 0]
    /\ origin' = [origin EXCEPT ![L] = "cleared"]
    /\ started' = [started EXCEPT ![L] = 0]
    /\ returned' = [returned EXCEPT ![L] = EmptyFn]
    /\ wlog' = [wlog EXCEPT ![L] = EmptyFn]
    /\ written' = [written EXCEPT ![L] = EmptyFn]
    /\ base' = [base EXCEPT ![L] = 0]
    /\ touched' = [touched EXCEPT ![L] = TRUE]
    /\ UNCHANGED << variant, status, BLOCKBITS, sl, riVars, blockLookupTable, pc,
                    call, snap, mapVars >>

\* ~PiggyList()
PLDestroy(L) ==
    /\ status = "running" /\ variant = "PL"
    /\ Alive(L) /\ Quiescent(L) /\ sl[L] = 0
    /\ heap' = PLFreeList(L)
    /\ origin' = [origin EXCEPT ![L] = "dead"]
    /\ touched' = [touched EXCEPT ![L] = TRUE]
    /\ UNCHANGED << variant, status, BLOCKBITS, plVars, riVars, blockLookupTable,
                    pc, call, started, returned, wlog, written, base, snap, nops,
                    mapVars >>

\* new T[n] followed by memcpy of n elements from block p
CopyBlock(h, p, n) ==
    [size |-> n,
     data |-> [o \in 0 .. (n - 1) |->
                 IF Live(h, p) /\ o < h[p].size THEN h[p].data[o] ELSE Uninit],
     frees |-> 0]

\* the assertion closing the copy constructor: (cSize >> 1) == container_size
CopyAssert(cSize, cs) == (cSize \div 2) = cs

\* PiggyList(const PiggyList& other), other quiescent.  allocsize takes its
\* default member initialiser; a failed assert aborts a build that keeps
\* asserts and is skipped by one that does not.
PLCopy(dst, other) ==
    LET n == num_containers[other]
        B == 2 ^ BLOCKBITS[other]
        cSize == B * 2 ^ n
    IN  /\ status = "running" /\ variant = "PL"
        /\ origin[dst] = "none" /\ Alive(other) /\ Quiescent(other)
        /\ BLOCKBITS' = [BLOCKBITS EXCEPT ![dst] = BLOCKBITS[other]]
        /\ num_containers' = [num_containers EXCEPT ![dst] = n]
        /\ container_size' = [container_size EXCEPT ![dst] = container_size[other]]
        /\ m_size' = [m_size EXCEPT ![dst] = m_size[other]]
        /\ allocsize' = [allocsize EXCEPT ![dst] = B]
        /\ heap' = heap \o [i \in 1 .. n |->
                              CopyBlock(heap, blockLookupTable[other][i - 1], B * 2 ^ (i - 1))]
        /\ blockLookupTable' = [blockLookupTable EXCEPT ![dst] =
                                  [k \in Slots |-> IF k < n THEN Len(heap) + k + 1 ELSE NULL]]
        /\ status' \in (IF CopyAssert(cSize, container_size[other])
                        THEN {"running"} ELSE {"running", "aborted"})
        /\ origin' = [origin EXCEPT ![dst] = "copy"]
        /\ started' = [started EXCEPT ![dst] = 0]
        /\ returned' = [returned EXCEPT ![dst] = EmptyFn]
        /\ wlog' = [wlog EXCEPT ![dst] = wlog[other]]
        /\ written' = [written EXCEPT ![dst] = written[other]]
        /\ base' = [base EXCEPT ![dst] = m_size[other]]
        /\ snap' = [size |-> m_size[other],
                    vals |-> [i \in DOMAIN written[other] |-> PLGetVals(other, i)]]
        /\ touched' = [L \in Lists |-> FALSE]
        /\ UNCHANGED << variant, sl, riVars, pc, call, nops, mapVars >>

PLNext ==
    \/ \E t \in Threads, L \in Lists, v \in Values : append(t, L, v)
    \/ \E t \in Threads, L \in Lists : createNode(t, L)
    \/ \E t \in Threads : GrowCheck(t)
    \/ \E t \in Threads : LockAcquire(t)
    \/ \E t \in Threads : GrowLoop(t)
    \/ \E t \in Threads : GrowAlloc(t)
    \/ \E t \in Threads : GrowIncNum(t)
    \/ \E t \in Threads : GrowIncSize(t)
    \/ \E t \in Threads : GrowDouble(t)
    \/ \E t \in Threads : LockRelease(t)
    \/ \E t \in Threads : AppendWrite(t)
    \/ \E t \in Threads : Return(t)
    \/ \E L \in Lists : PLClear(L)
    \/ \E L \in Lists : PLDestroy(L)
    \/ PLCopy("b", "a")

-----------------------------------------------------------------------------
(* RandomInsertPiggyList.                                                  *)

\* the values get(index) can read as
RIGetVals(L, index) ==
    UNION { LoadOutcomes(heap, getBlock(L, loc[1]), loc[2]) :
            loc \in RILocate(BLOCKBITS[L], index) }

\* insertAt(index, value) up to the unlocked check of the slot.  Two calls
\* writing one index at the same time race on the element; callers keep
\* them apart, so a call starts only when no other call holds its index.
insertAt(t, L, index, value) ==
    LET blockNum == InsertAtBlockNum(BLOCKBITS[L], index)
    IN  /\ status = "running" /\ variant = "RI"
        /\ Alive(L) /\ FirstIdle(t) /\ nops < MaxOps
        /\ \A u \in InFlight(L) : call[u].index # index
        /\ blockNum \in Slots
        /\ call' = [call EXCEPT ![t] =
                      [obj |-> L, op |-> "insertAt", index |-> index, value |-> value,
                       blockNum |-> blockNum]]
        /\ pc' = [pc EXCEPT ![t] =
                    IF blockLookupTable[L][blockNum] = NULL THEN "ri_lock" ELSE "ri_write"]
        /\ nops' = nops + 1
        /\ started' = [started EXCEPT ![L] = @ + 1]
        /\ touched' = [touched EXCEPT ![L] = TRUE]
        /\ UNCHANGED << variant, status, BLOCKBITS, plVars, riVars, blockLookupTable,
                        heap, origin, returned, wlog, written, base, snap, mapVars >>

\* slock.lock()
RILockAcquire(t) ==
    /\ status = "running" /\ pc[t] = "ri_lock"
    /\ slock[call[t].obj] = 0
    /\ slock' = [slock EXCEPT ![call[t].obj] = t]
    /\ pc' = [pc EXCEPT ![t] = "ri_recheck"]
    /\ UNCHANGED << variant, status, BLOCKBITS, plVars, numElements,
                    blockLookupTable, heap, call, origin, histVars, nops, mapVars >>

\* mutant: the check is not repeated under the lock
RIAllocateNoRecheck(t) ==
    LET L == call[t].obj
        blockNum == call[t].blockNum
    IN  /\ status = "running" /\ pc[t] = "ri_recheck"
        /\ heap' = Append(heap, NewBlock(INITIALBLOCKSIZE(L) * 2 ^ blockNum))
        /\ blockLookupTable' = [blockLookupTable EXCEPT ![L][blockNum] = Len(heap) + 1]
        /\ pc' = [pc EXCEPT ![t] = "ri_unlock"]
        /\ UNCHANGED << variant, status, BLOCKBITS, plVars, riVars, call, origin,
                        histVars, nops, mapVars >>

\* the check repeated under the lock, and the allocation of the slot's block
RIAllocate(t) ==
    LET L == call[t].obj
        blockNum == call[t].blockNum
    IN  /\ status = "running" /\ pc[t] = "ri_recheck"
        /\ IF blockLookupTable[L][blockNum] = NULL
           THEN /\ heap' = Append(heap, NewBlock(INITIALBLOCKSIZE(L) * 2 ^ blockNum))
                /\ blockLookupTable' =
                      [blockLookupTable EXCEPT ![L][blockNum] = Len(heap) + 1]
           ELSE UNCHANGED << heap, blockLookupTable >>
        /\ pc' = [pc EXCEPT ![t] = "ri_unlock"]
        /\ UNCHANGED << variant, status, BLOCKBITS, plVars, riVars, call, origin,
                        histVars, nops, mapVars >>

\* slock.unlock()
RILockRelease(t) ==
    /\ status = "running" /\ pc[t] = "ri_unlock"
    /\ slock' = [slock EXCEPT ![call[t].obj] = 0]
    /\ pc' = [pc EXCEPT ![t] = "ri_write"]
    /\ UNCHANGED << variant, status, BLOCKBITS, plVars, numElements,
                    blockLookupTable, heap, call, origin, histVars, nops, mapVars >>

\* this->get(index) = value
RIWrite(t) ==
    LET L == call[t].obj
    IN  /\ status = "running" /\ pc[t] = "ri_write"
        /\ \E loc \in RILocate(BLOCKBITS[L], call[t].index) :
              /\ \E out \in StoreOutcomes(heap, getBlock(L, loc[1]), loc[2], call[t].value) :
                    /\ heap' = out[1]
                    /\ status' = out[2]
              /\ wlog' = [wlog EXCEPT ![L] = Count(@, loc)]
        /\ written' = [written EXCEPT ![L] = Put(@, call[t].index, call[t].value)]
        /\ pc' = [pc EXCEPT ![t] = "ri_inc"]
        /\ UNCHANGED << variant, BLOCKBITS, plVars, riVars, blockLookupTable, call,
                        origin, started, returned, base, snap, touched, nops,
                        mapVars >>

\* mutant: size() made to count the distinct indices written
RIIncrementDistinct(t) ==
    /\ status = "running" /\ pc[t] = "ri_inc"
    /\ numElements' = [numElements EXCEPT ![call[t].obj] =
                          Cardinality(DOMAIN written[call[t].obj])]
    /\ returned' = [returned EXCEPT ![call[t].obj] = Count(@, call[t].index)]
    /\ pc' = [pc EXCEPT ![t] = "idle"]
    /\ call' = [call EXCEPT ![t] = NoCall]
    /\ UNCHANGED << variant, status, BLOCKBITS, plVars, slock, blockLookupTable,
                    heap, origin, started, wlog, written, base, snap, touched,
                    nops, mapVars >>

\* ++numElements, and the call returns
RIIncrement(t) ==
    /\ status = "running" /\ pc[t] = "ri_inc"
    /\ numElements' = [numElements EXCEPT ![call[t].obj] = @ + 1]
    /\ returned' = [returned EXCEPT ![call[t].obj] = Count(@, call[t].index)]
    /\ pc' = [pc EXCEPT ![t] = "idle"]
    /\ call' = [call EXCEPT ![t] = NoCall]
    /\ UNCHANGED << variant, status, BLOCKBITS, plVars, slock, blockLookupTable,
                    heap, origin, started, wlog, written, base, snap, touched,
                    nops, mapVars >>

\* freeList(): delete[] every slot (nullptr included) under the lock
RIFreeList(L) == DeleteAll(heap, { blockLookupTable[L][i] : i \in Slots } \ {NULL})

\* clear(), called with no other call in flight on the list
RIClear(L) ==
    /\ status = "running" /\ variant = "RI"
    /\ Alive(L) /\ Quiescent(L) /\ slock[L] = 0 /\ nops < MaxOps
    /\ nops' = nops + 1
    /\ heap' = RIFreeList(L)
    /\ blockLookupTable' = [blockLookupTable EXCEPT ![L] = EmptyTable]
    /\ numElements' = [numElements EXCEPT ![L] = 0]
    /\ origin' = [origin EXCEPT ![L] = "cleared"]
    /\ started' = [started EXCEPT ![L] = 0]
    /\ returned' = [returned EXCEPT ![L] = EmptyFn]
    /\ wlog' = [wlog EXCEPT ![L] = EmptyFn]
    /\ written' = [written EXCEPT ![L] = EmptyFn]
    /\ base' = [base EXCEPT ![L] = 0]
    /\ touched' = [touched EXCEPT ![L] = TRUE]
    /\ UNCHANGED << variant, status, BLOCKBITS, plVars, slock, pc, call, snap,
                    mapVars >>

\* ~RandomInsertPiggyList()
RIDestroy(L) ==
    /\ status = "running" /\ variant = "RI"
    /\ Alive(L) /\ Quiescent(L) /\ slock[L] = 0
    /\ heap' = RIFreeList(L)
    /\ blockLookupTable' = [blockLookupTable EXCEPT ![L] = EmptyTable]
    /\ origin' = [origin EXCEPT ![L] = "dead"]
    /\ touched' = [touched EXCEPT ![L] = TRUE]
    /\ UNCHANGED << variant, status, BLOCKBITS, plVars, riVars, pc, call, started,
                    returned, wlog, written, base, snap, nops, mapVars >>

\* RandomInsertPiggyList(const RandomInsertPiggyList& other), other quiescent
RICopy(dst, other) ==
    LET used == { i \in Slots : blockLookupTable[other][i] # NULL }
        \* rank of slot i among the allocated slots, in loop order
        rank(i) == Cardinality({ j \in used : j <= i })
        slotAt(r) == CHOOSE i \in used : rank(i) = r
    IN  /\ status = "running" /\ variant = "RI"
        /\ origin[dst] = "none" /\ Alive(other) /\ Quiescent(other)
        /\ BLOCKBITS' = [BLOCKBITS EXCEPT ![dst] = BLOCKBITS[other]]
        /\ numElements' = [numElements EXCEPT ![dst] = numElements[other]]
        /\ heap' = heap \o [r \in 1 .. Cardinality(used) |->
                              CopyBlock(heap, blockLookupTable[other][slotAt(r)],
                                        INITIALBLOCKSIZE(other) * 2 ^ slotAt(r))]
        /\ blockLookupTable' = [blockLookupTable EXCEPT ![dst] =
                                  [k \in Slots |->
                                      IF k \in used THEN Len(heap) + rank(k) ELSE NULL]]
        /\ origin' = [origin EXCEPT ![dst] = "copy"]
        /\ started' = [started EXCEPT ![dst] = 0]
        /\ returned' = [returned EXCEPT ![dst] = EmptyFn]
        /\ wlog' = [wlog EXCEPT ![dst] = wlog[other]]
        /\ written' = [written EXCEPT ![dst] = written[other]]
        /\ base' = [base EXCEPT ![dst] = numElements[other]]
        /\ snap' = [size |-> numElements[other],
                    vals |-> [i \in DOMAIN written[other] |-> RIGetVals(other, i)]]
        /\ touched' = [L \in Lists |-> FALSE]
        /\ UNCHANGED << variant, status, plVars, slock, pc, call, nops, mapVars >>

RINext ==
    \/ \E t \in Threads, L \in Lists, i \in 0 .. MaxInsertIdx, v \in Values :
          insertAt(t, L, i, v)
    \/ \E t \in Threads : RILockAcquire(t)
    \/ \E t \in Threads : RIAllocate(t)
    \/ \E t \in Threads : RILockRelease(t)
    \/ \E t \in Threads : RIWrite(t)
    \/ \E t \in Threads : RIIncrement(t)
    \/ \E L \in Lists : RIClear(L)
    \/ \E L \in Lists : RIDestroy(L)
    \/ RICopy("b", "a")

\* size() and get(index) of either class
Size(L) == IF variant = "PL" THEN m_size[L] ELSE numElements[L]
GetVals(L, index) == IF variant = "PL" THEN PLGetVals(L, index) ELSE RIGetVals(L, index)

Next == PLNext \/ RINext

Spec == Init /\ [][Next]_vars

-----------------------------------------------------------------------------
(* The mapping functions on their own: inputs drawn from a bounded set,    *)
(* one action per code path.                                               *)

MapBits == BitsSet \cup {2, 3, DefaultBLOCKBITS}

MapIndices(bits) ==
    (0 .. MapMaxIdx)
    \cup { k * 2 ^ bits + d : k \in 1 .. MapMaxMult, d \in {-1, 0, 1} }

InitMap ==
    /\ InitLists("MAP", 0)
    /\ \E bits \in MapBits : \E index \in MapIndices(bits) :
          mapIn = [bits |-> bits, index |-> index]
    /\ mapOut = [pl |-> {}, ri |-> {}, ins |-> {}]

listVars == << status, BLOCKBITS, plVars, riVars, blockLookupTable, heap, pc, call,
               origin, histVars, nops, iters >>

MapPLGet ==
    /\ variant = "MAP" /\ mapOut.pl = {}
    /\ mapOut' = [mapOut EXCEPT !.pl = PLLocate(mapIn.bits, mapIn.index)]
    /\ UNCHANGED << variant, mapIn, listVars >>

MapRIGet ==
    /\ variant = "MAP" /\ mapOut.ri = {}
    /\ mapOut' = [mapOut EXCEPT !.ri = RILocate(mapIn.bits, mapIn.index)]
    /\ UNCHANGED << variant, mapIn, listVars >>

MapInsertAt ==
    /\ variant = "MAP" /\ mapOut.ins = {}
    /\ mapOut' = [mapOut EXCEPT !.ins = {InsertAtBlockNum(mapIn.bits, mapIn.index)}]
    /\ UNCHANGED << variant, mapIn, listVars >>

NextMap == MapPLGet \/ MapRIGet \/ MapInsertAt

SpecMap == InitMap /\ [][NextMap]_vars

-----------------------------------------------------------------------------
(* The mapping of get() over the 64-bit range: indices around every power  *)
(* of two, for every base size of MapBits.                                 *)

\* the indices 2^r, 2^r + 1, 2^r + 2^(r-1) and 2^(r+1) - 1, for r = 0 .. 63
WideIndices ==
    UNION { { {r}, {r, 0}, {r} \cup ({r - 1} \cap BitPositions), 0 .. r } :
            r \in BitPositions }

\* idx + B stays below 2^64: the index is inside the range the table addresses
InRange(bits, index) == \E b \in bits .. (SizeBits - 1) : b \notin index

InitWide ==
    /\ InitLists("MAP64", 0)
    /\ \E bits \in MapBits : \E index \in WideIndices :
          /\ InRange(bits, index)
          /\ mapIn = [bits |-> bits, index |-> index]
    /\ mapOut = [pl |-> {}, ri |-> {}, ins |-> {}]

WidePLGet ==
    /\ variant = "MAP64" /\ mapOut.pl = {}
    /\ mapOut' = [mapOut EXCEPT !.pl = PLLocate64(mapIn.bits, mapIn.index)]
    /\ UNCHANGED << variant, mapIn, listVars >>

WideRIGet ==
    /\ variant = "MAP64" /\ mapOut.ri = {}
    /\ mapOut' = [mapOut EXCEPT !.ri = RILocate64(mapIn.bits, mapIn.index)]
    /\ UNCHANGED << variant, mapIn, listVars >>

NextWide == WidePLGet \/ WideRIGet

SpecWide == InitWide /\ [][NextWide]_vars

-----------------------------------------------------------------------------
(* PiggyList::iterator.  One thread builds the lists (append, createNode,   *)
(* clear, copy construction); between its calls an iterator is taken with  *)
(* begin(), advanced and dereferenced, and end() is taken.                 *)

iterVars == << variant, status, BLOCKBITS, plVars, riVars, blockLookupTable, heap,
               pc, call, origin, histVars, nops, mapIn, mapOut >>

\* mutant: begin() built with the two-argument constructor and index 1
IteratorAtOne(L) == [bl |-> L, cIndex |-> 1]
\* iterator(PiggyList* bl): cIndex keeps its initialiser 0
IteratorAt0(L) == [bl |-> L, cIndex |-> 0]
\* iterator(PiggyList* bl, size_t beginInd)
IteratorAt(L, beginInd) == [bl |-> L, cIndex |-> beginInd]

\* operator==: x.cIndex == this->cIndex && x.bl == this->bl
IterEq(x, y) == x.cIndex = y.cIndex /\ x.bl = y.bl

\* begin()
IterBegin(L) ==
    /\ status = "running" /\ variant = "PL" /\ Alive(L) /\ Quiescent(L)
    /\ iters' = [iters EXCEPT !.it = IteratorAt0(L), !.ret = NoIter, !.steps = 0,
                              !.used = {}, !.seen = {}, !.derefOk = TRUE]
    /\ UNCHANGED iterVars

\* end(): iterator(this, size())
IterEnd(L) ==
    /\ status = "running" /\ variant = "PL" /\ Alive(L) /\ Quiescent(L)
    /\ iters' = [iters EXCEPT !.e = IteratorAt(L, m_size[L]), !.endSize = m_size[L]]
    /\ UNCHANGED iterVars

\* the iterator it can be advanced / dereferenced: its list is alive and
\* quiescent and the index is one the list has handed out
IterInside ==
    /\ status = "running" /\ variant = "PL"
    /\ iters.it.bl \in Lists
    /\ Alive(iters.it.bl) /\ Quiescent(iters.it.bl)
    /\ iters.it.cIndex < m_size[iters.it.bl]

\* iterator& operator++(int): ++cIndex; return *this
IterIncPostfix ==
    /\ IterInside
    /\ LET next == [iters.it EXCEPT !.cIndex = @ + 1]
       IN  iters' = [iters EXCEPT !.it = next, !.ret = next, !.steps = @ + 1,
                                  !.used = @ \cup {"postfix"}]
    /\ UNCHANGED iterVars

\* iterator operator++(): iterator ret(*this); ++cIndex; return ret
IterIncPrefix ==
    /\ IterInside
    /\ iters' = [iters EXCEPT !.it = [iters.it EXCEPT !.cIndex = @ + 1],
                              !.ret = iters.it, !.steps = @ + 1,
                              !.used = @ \cup {"prefix"}]
    /\ UNCHANGED iterVars

\* operator*: bl->get(cIndex), compared with get(number of increments);
\* one dereference per position is followed
IterDeref ==
    /\ IterInside /\ iters.steps \notin iters.seen
    /\ \E v \in PLGetVals(iters.it.bl, iters.it.cIndex) :
          iters' = [iters EXCEPT !.seen = @ \cup {iters.steps},
                                 !.derefOk = @ /\ v \in PLGetVals(iters.it.bl, iters.steps)]
    /\ UNCHANGED iterVars

NextIter ==
    \/ \E L \in Lists, v \in Values : append(1, L, v)
    \/ \E L \in Lists : createNode(1, L)
    \/ GrowCheck(1) \/ LockAcquire(1) \/ GrowLoop(1) \/ GrowAlloc(1)
    \/ GrowIncNum(1) \/ GrowIncSize(1) \/ GrowDouble(1) \/ LockRelease(1)
    \/ AppendWrite(1) \/ Return(1)
    \/ \E L \in Lists : PLClear(L)
    \/ PLCopy("b", "a")
    \/ \E L \in Lists : IterBegin(L)
    \/ \E L \in Lists : IterEnd(L)
    \/ IterIncPostfix
    \/ IterIncPrefix
    \/ IterDeref

InitIter ==
    /\ \E bits \in BitsSet : InitLists("PL", bits)
    /\ mapIn = [bits |-> 0, index |-> 0]
    /\ mapOut = [pl |-> {}, ri |-> {}, ins |-> {}]

SpecIter == InitIter /\ [][NextIter]_vars

-----------------------------------------------------------------------------
(* Properties.                                                             *)

RECURSIVE BagTotal(_, _)
\* number of elements of the bag f over the keys S
BagTotal(f, S) ==
    IF S = {} THEN 0
    ELSE LET k == CHOOSE x \in S : TRUE IN f[k] + BagTotal(f, S \ {k})

\* indices reserved by the calls in flight on L
Reserved(L) == { call[t].index : t \in InFlight(L) }

\* the list started empty: default / explicit-size construction, or clear()
StartedEmpty(L) == origin[L] \in {"fresh", "cleared"}

\* C1: on a freshly constructed or freshly cleared PiggyList, the indices
\* handed out by append / createNode are pairwise different (among the calls
\* in flight and those that returned), and once all N calls have returned the
\* returned indices are exactly 0 .. N-1.
C1_UniqueIndices ==
    \A L \in Lists :
        (variant = "PL" /\ StartedEmpty(L)) =>
            /\ \A i \in DOMAIN returned[L] : returned[L][i] = 1 /\ i \notin Reserved(L)
            /\ \A t, u \in InFlight(L) : t # u => call[t].index # call[u].index
            /\ Quiescent(L) => DOMAIN returned[L] = 0 .. (started[L] - 1)

\* C1 witness: one call has returned and two more are about to return,
\* concurrently, on a list that started empty
C1_Witness ==
    \E L \in Lists :
        /\ variant = "PL" /\ StartedEmpty(L)
        /\ DOMAIN returned[L] # {}
        /\ \A t \in Threads : pc[t] = "ret" /\ call[t].obj = L

\* C2: when append is about to write at its reserved index, and when
\* createNode is about to return it, the slot the mapping assigns to the
\* index holds a live block.
C2_StorageExists ==
    \A t \in Threads :
        (variant = "PL" /\ pc[t] \in {"write", "ret"}) =>
            \A loc \in PLLocate(BLOCKBITS[call[t].obj], call[t].index) :
                Live(heap, getBlock(call[t].obj, loc[1]))

\* C2 witness: a call reaches its write while another thread still holds
\* the allocation lock of the same list
C2_Witness ==
    \E t \in Threads :
        /\ variant = "PL" /\ pc[t] = "write" /\ call[t].index > 0
        /\ sl[call[t].obj] \notin {0, t}

\* C3: the block held in slot k of a list has exactly B << k elements.
C3_BlockSizes ==
    \A L \in Lists : \A k \in Slots :
        (Alive(L) /\ Live(heap, blockLookupTable[L][k])) =>
            heap[blockLookupTable[L][k]].size = (2 ^ BLOCKBITS[L]) * 2 ^ k

\* a step that is clear() or the destructor of L
ClearOrDestroy(L) ==
    \/ origin'[L] = "dead"
    \/ origin'[L] = "cleared" /\ nops' = nops + 1 /\ started'[L] = 0

\* a slot that holds a block keeps holding that block
SlotsKept(L) ==
    \A k \in Slots :
        Live(heap, blockLookupTable[L][k]) =>
            /\ blockLookupTable'[L][k] = blockLookupTable[L][k]
            /\ Live(heap', blockLookupTable[L][k])

\* get(i) returns the value last written at i
ValuesKept(L) ==
    \A i \in DOMAIN written[L] : GetVals(L, i) = {written[L][i]}

\* C4: between construction and the next clear / destruction a slot that
\* holds a block keeps holding the same block, and a value written at index i
\* is what get(i) returns after any later calls.
C4_Stable ==
    [][ \A L \in Lists :
            (Alive(L) /\ ~ClearOrDestroy(L)) => (SlotsKept(L) /\ ValuesKept(L)') ]_vars

RECURSIVE RefSlot(_, _, _)
\* the first slot k whose cumulative capacity B*(2^(k+1) - 1) exceeds index
RefSlot(B, index, k) ==
    IF index < B * (2 ^ (k + 1) - 1) THEN k ELSE RefSlot(B, index, k + 1)

\* the reference location: slot k holds the B*2^k indices after B*(2^k - 1)
RefLoc(B, index) ==
    LET k == RefSlot(B, index, 0) IN << k, index - B * (2 ^ k - 1) >>

\* C5: the three code paths map every index of the bounded set to the
\* reference (slot, offset), with the offset inside the slot's B*2^slot
\* elements; 0, B-1, B, 3B-1 and 3B map to (0,0), (0,B-1), (1,0), (1,2B-1), (2,0).
C5_Mapping ==
    LET B == 2 ^ mapIn.bits
        i == mapIn.index
        ref == RefLoc(B, i)
    IN  variant = "MAP" =>
            /\ mapOut.pl # {} => mapOut.pl = {ref}
            /\ mapOut.ri # {} => mapOut.ri = {ref}
            /\ mapOut.ins # {} => mapOut.ins = {ref[1]}
            /\ \A loc \in mapOut.pl \cup mapOut.ri :
                  /\ i = B * (2 ^ loc[1] - 1) + loc[2]
                  /\ 0 <= loc[2] /\ loc[2] < B * 2 ^ loc[1]
                  /\ i = 0 => loc = << 0, 0 >>
                  /\ i = B - 1 => loc = << 0, B - 1 >>
                  /\ i = B => loc = << 1, 0 >>
                  /\ i = 3 * B - 1 => loc = << 1, 2 * B - 1 >>
                  /\ i = 3 * B => loc = << 2, 0 >>

\* C5 witness: index 3B under the default base size, through all three paths
C5_Witness ==
    /\ variant = "MAP"
    /\ mapIn.bits = DefaultBLOCKBITS /\ mapIn.index = 3 * 2 ^ DefaultBLOCKBITS
    /\ mapOut.pl = {<< 2, 0 >>} /\ mapOut.ri = {<< 2, 0 >>} /\ mapOut.ins = {2}

RECURSIVE MinBlocks(_, _, _)
\* the smallest k >= from with B*(2^k - 1) >= N
MinBlocks(B, N, from) ==
    IF B * (2 ^ from - 1) >= N THEN from ELSE MinBlocks(B, N, from + 1)

\* C6: once the N calls made on a PiggyList that started empty have all
\* returned, size() is N and the allocated blocks are slots 0 .. k-1 with
\* B << slot elements each, k the smallest number with B*(2^k - 1) >= N.
C6_MinimalGrowth ==
    \A L \in Lists :
        (variant = "PL" /\ StartedEmpty(L) /\ Quiescent(L)) =>
            LET B == 2 ^ BLOCKBITS[L]
                k == MinBlocks(B, started[L], 0)
            IN  /\ m_size[L] = started[L]
                /\ num_containers[L] = k
                /\ container_size[L] = B * (2 ^ k - 1)
                /\ \A s \in Slots :
                      Live(heap, blockLookupTable[L][s]) <=> s < k
                /\ \A s \in 0 .. (k - 1) :
                      heap[blockLookupTable[L][s]].size = B * 2 ^ s

\* C6 witness: B + 1 calls completed on a list of base size B = 2: two blocks
C6_Witness ==
    \E L \in Lists :
        /\ variant = "PL" /\ StartedEmpty(L) /\ Quiescent(L)
        /\ BLOCKBITS[L] = 1 /\ m_size[L] = 3 /\ num_containers[L] = 2

\* pointers to live blocks held in the table of L
Blocks(L) == { blockLookupTable[L][k] : k \in Slots } \cap { p \in 1 .. Len(heap) : heap[p].frees = 0 }

\* C7: a copy has the size and the values of its source and blocks of its
\* own; whatever is later done to one of the two lists, size() and get(i) of
\* the one left alone stay as they were when the copy was made.
C7_CopyIndependent ==
    origin["b"] # "none" =>
        /\ (Alive("a") /\ Alive("b")) => Blocks("a") \cap Blocks("b") = {}
        /\ \A L \in Lists :
              ~touched[L] =>
                  /\ Size(L) = snap.size
                  /\ \A i \in DOMAIN snap.vals : GetVals(L, i) = snap.vals[i]

\* C8: right after clear() a PiggyList has size 0, capacity 0, no block and
\* allocsize B, and a RandomInsertPiggyList has size 0 and an empty table; the
\* first append / createNode after it gets index 0 and finds slot 0 holding
\* a block of B elements.
C8_ClearResets ==
    \A L \in Lists :
        origin[L] = "cleared" =>
            /\ (started[L] = 0 /\ variant = "PL") =>
                  /\ m_size[L] = 0 /\ container_size[L] = 0
                  /\ num_containers[L] = 0 /\ allocsize[L] = BLOCKSIZE(L)
            /\ (started[L] = 0 /\ variant = "RI") =>
                  /\ numElements[L] = 0
                  /\ \A k \in Slots : blockLookupTable[L][k] = NULL
            /\ (started[L] = 1 /\ variant = "PL") =>
                  /\ Reserved(L) \cup DOMAIN returned[L] = {0}
                  /\ \A t \in InFlight(L) :
                        pc[t] \in {"write", "ret"} =>
                            /\ Live(heap, blockLookupTable[L][0])
                            /\ heap[blockLookupTable[L][0]].size = BLOCKSIZE(L)

\* C8 witness: a list that had grown was cleared and the next append is at
\* its write with index 0
C8_Witness ==
    \E L \in Lists : \E t \in InFlight(L) :
        /\ variant = "PL" /\ origin[L] = "cleared" /\ started[L] = 1
        /\ pc[t] = "write" /\ call[t].index = 0
        /\ \E p \in 1 .. Len(heap) : heap[p].frees = 1

\* C9: size() of a RandomInsertPiggyList is the number of insertAt calls
\* completed since construction or the last clear (a copy continues the count
\* of its source), whether or not indices repeat, and get(i) holds the value
\* of the latest write at an index written more than once.
C9_SizeCountsCalls ==
    \A L \in Lists :
        (variant = "RI" /\ Alive(L)) =>
            /\ numElements[L] = base[L] + BagTotal(returned[L], DOMAIN returned[L])
            /\ StartedEmpty(L) => base[L] = 0
            /\ \A i \in DOMAIN returned[L] :
                  (returned[L][i] >= 2 /\ i \notin Reserved(L)) =>
                      RIGetVals(L, i) = {written[L][i]}

\* C9 witness: two completed insertAt calls at one index, size() is 2
C9_Witness ==
    \E L \in Lists : \E i \in DOMAIN returned[L] :
        /\ variant = "RI" /\ StartedEmpty(L)
        /\ returned[L][i] = 2 /\ DOMAIN returned[L] = {i}
        /\ numElements[L] = 2

\* locations the appends in flight on L have still to write
PendingLocs(t) ==
    IF call[t].op = "append" /\ pc[t] # "ret"
    THEN PLLocate(BLOCKBITS[call[t].obj], call[t].index) ELSE {}

\* no location is written twice, nor awaited by two calls
DistinctLocations ==
    \A L \in Lists :
        variant = "PL" =>
            /\ \A loc \in DOMAIN wlog[L] : wlog[L][loc] = 1
            /\ \A t \in InFlight(L) : PendingLocs(t) \cap DOMAIN wlog[L] = {}
            /\ \A t, u \in InFlight(L) : t # u => PendingLocs(t) \cap PendingLocs(u) = {}

\* a step of a thread inside append / createNode
CallStep == variant = "PL" /\ pc' # pc

C11_CapacityCoversSize ==
    \A L \in Lists :
        (variant = "PL" /\ Alive(L)) =>
            /\ Quiescent(L) => container_size[L] >= m_size[L]
            /\ \A t \in InFlight(L) :
                  pc[t] \in {"unlock", "write", "ret"} =>
                      container_size[L] >= call[t].index + 1

\* C11 witness: two calls in flight, size() already counts both while the
\* capacity, grown once, still lags behind
C11_Witness ==
    \E L \in Lists :
        /\ variant = "PL" /\ Cardinality(InFlight(L)) = 2
        /\ container_size[L] > 0 /\ m_size[L] > container_size[L]

-----------------------------------------------------------------------------
(* Termination.  The threads are pre-emptive and run in parallel: a thread  *)
(* that can take its next step inside a call eventually takes it.          *)

\* the next step of thread t inside the call it is running
ThreadStep(t) ==
    \/ GrowCheck(t) \/ LockAcquire(t) \/ GrowLoop(t) \/ GrowAlloc(t)
    \/ GrowIncNum(t) \/ GrowIncSize(t) \/ GrowDouble(t) \/ LockRelease(t)
    \/ AppendWrite(t) \/ Return(t)
    \/ RILockAcquire(t) \/ RIAllocate(t) \/ RILockRelease(t)
    \/ RIWrite(t) \/ RIIncrement(t)

\* the lists start with base size 1, where every call but the first grows
InitFair ==
    /\ \E kind \in {"PL", "RI"} : InitLists(kind, 0)
    /\ mapIn = [bits |-> 0, index |-> 0]
    /\ mapOut = [pl |-> {}, ri |-> {}, ins |-> {}]

SpecFair == InitFair /\ [][Next]_vars /\ \A t \in Threads : WF_vars(ThreadStep(t))

\* C12: under weak fairness of every thread, every append, createNode and
\* insertAt call that has started eventually returns.
C12_Returns == \A t \in Threads : (pc[t] # "idle") ~> (pc[t] = "idle")

\* every call returns unless the process has faulted
ReturnsWhileRunning ==
    \A t \in Threads : (pc[t] # "idle") ~> (pc[t] = "idle" \/ status # "running")

-----------------------------------------------------------------------------
\* thread t is at a point of its call from which the code takes no lock:
\* the first check of an index that fits, the write, the return
LockFreePoint(t) ==
    \/ /\ pc[t] = "check"
       /\ ~WillNotFit(container_size[call[t].obj], call[t].index)
    \/ pc[t] \in {"write", "ret", "ri_write", "ri_inc"}

\* C13: a call at a lock-free point can take its next step whoever holds the
\* allocation lock, that step leaves the lock alone and leads to another
\* lock-free point or to the return; an insertAt that finds its slot
\* non-empty goes straight to its write.
C13_LockFreePaths ==
    /\ [](\A t \in Threads :
             (status = "running" /\ LockFreePoint(t)) => ENABLED ThreadStep(t))
    /\ [][ \A t \in Threads :
             /\ (LockFreePoint(t) /\ pc'[t] # pc[t]) =>
                   /\ pc'[t] = "idle" \/ LockFreePoint(t)'
                   /\ pc'[t] \notin {"check", "lock", "ri_lock"}
                   /\ sl' = sl /\ slock' = slock
             /\ (variant = "RI" /\ pc[t] = "idle" /\ pc'[t] # "idle"
                 /\ blockLookupTable[call'[t].obj][call'[t].blockNum] # NULL) =>
                   pc'[t] = "ri_write" ]_vars

\* C13 witness: the index of a call at its first check is already covered
\* while another thread holds the lock of the same list
C13_Witness ==
    \E t \in Threads :
        /\ variant = "PL" /\ pc[t] = "check"
        /\ ~WillNotFit(container_size[call[t].obj], call[t].index)
        /\ sl[call[t].obj] \notin {0, t}

-----------------------------------------------------------------------------
\* a step of thread t inside insertAt, its first statement included
InsertAtStep(t) == variant = "RI" /\ pc'[t] # pc[t]

\* the list thread t works on during the step
StepObj(t) == IF pc[t] = "idle" THEN call'[t].obj ELSE call[t].obj

\* every live block is held in exactly one slot of one live list
NoBlockAdrift ==
    \A p \in 1 .. Len(heap) :
        heap[p].frees = 0 =>
            Cardinality({ << L, k >> \in Lists \X Slots :
                             Alive(L) /\ blockLookupTable[L][k] = p }) = 1

\* C14: a step of insertAt(idx, v) changes no slot but the one that owns idx,
\* changes that one only from empty to a new block of its own, and frees
\* nothing; every live block stays held by exactly one slot, and get(i) keeps
\* returning the value last written at i.
C14_SingleAllocation ==
    /\ [](variant = "RI" => (NoBlockAdrift /\ \A L \in Lists : Alive(L) => ValuesKept(L)))
    /\ [][ \A t \in Threads :
             InsertAtStep(t) =>
                 /\ \A L \in Lists : \A k \in Slots :
                       blockLookupTable'[L][k] # blockLookupTable[L][k] =>
                           /\ L = StepObj(t)
                           /\ k = InsertAtBlockNum(BLOCKBITS[L], call[t].index)
                           /\ blockLookupTable[L][k] = NULL
                           /\ blockLookupTable'[L][k] = Len(heap) + 1
                           /\ Len(heap') = Len(heap) + 1
                 /\ Len(heap') >= Len(heap)
                 /\ \A p \in 1 .. Len(heap) : heap'[p].frees = heap[p].frees ]_vars

\* C14 witness: two insertAt calls went for the same empty slot of one list;
\* one has allocated it, the other repeats its check under the lock
C14_Witness ==
    \E t, u \in Threads :
        /\ variant = "RI" /\ t # u
        /\ call[t].obj = call[u].obj /\ call[t].blockNum = call[u].blockNum
        /\ call[t].index # call[u].index
        /\ pc[t] = "ri_recheck" /\ pc[u] \in {"ri_write", "ri_inc"}
        /\ blockLookupTable[call[t].obj][call[t].blockNum] # NULL

-----------------------------------------------------------------------------
\* C15: the assertion closing PiggyList's copy constructor holds whenever
\* the constructor runs on a quiescent source: no copy aborts on it.
C15_CopyAssertHolds == status # "aborted"

-----------------------------------------------------------------------------
RECURSIVE Value(_)
\* the number a set of bit positions stands for (small values only)
Value(S) == IF S = {} THEN 0 ELSE LET b == HighBit64(S) IN 2 ^ b + Value(S \ {b})

\* below 2^30 the mapping over bit sets is the mapping over integers
WideMatchesNarrow ==
    (variant = "MAP64" /\ \A b \in mapIn.index : b < IntBits - 2) =>
        /\ mapOut.pl # {} =>
              { << loc[1], Value(loc[2]) >> : loc \in mapOut.pl }
                  = PLLocate(mapIn.bits, Value(mapIn.index))
        /\ mapOut.ri # {} =>
              { << loc[1], Value(loc[2]) >> : loc \in mapOut.ri }
                  = RILocate(mapIn.bits, Value(mapIn.index))

\* C16: for every index of the addressing range (n = idx + B does not wrap)
\* the offset get() computes is n - 2^rawBlock, rawBlock the highest set bit
\* of n, whatever rawBlock in 0 .. 63.
C16_OffsetExact ==
    variant = "MAP64" =>
        LET n == AddBit(mapIn.index, mapIn.bits)
            rawBlock == HighBit64(n)
        IN  /\ InRange(mapIn.bits, mapIn.index)
            /\ \A loc \in mapOut.pl \cup mapOut.ri :
                  loc = << rawBlock - mapIn.bits, n \ {rawBlock} >>

-----------------------------------------------------------------------------
RECURSIVE StoredSize(_, _)
\* total number of elements of the blocks held in slots 0 .. n-1 of L
StoredSize(L, n) ==
    IF n = 0 THEN 0
    ELSE (IF Live(heap, blockLookupTable[L][n - 1])
          THEN heap[blockLookupTable[L][n - 1]].size ELSE 0)
         + StoredSize(L, n - 1)

\* with the lock free the three growth fields agree
GrowthFieldsAgree(L) ==
    sl[L] = 0 =>
        /\ container_size[L] = BLOCKSIZE(L) * (2 ^ num_containers[L] - 1)
        /\ allocsize[L] = BLOCKSIZE(L) * 2 ^ num_containers[L]

\* the capacity is backed by the blocks of the first num_containers slots
CapacityBacked(L) == container_size[L] <= StoredSize(L, num_containers[L])

\* C17: on every PiggyList reached through construction, copy construction,
\* append, createNode and clear: whenever the lock is free, container_size =
\* B*(2^num_containers - 1) and allocsize = B << num_containers; and in every
\* state container_size is at most the total size of the blocks stored in
\* the first num_containers slots.
C17_Accounting ==
    \A L \in Lists :
        (variant = "PL" /\ Alive(L)) => (GrowthFieldsAgree(L) /\ CapacityBacked(L))

\* the second half of C17 on its own
CapacityAlwaysBacked ==
    \A L \in Lists : (variant = "PL" /\ Alive(L)) => CapacityBacked(L)

-----------------------------------------------------------------------------
\* thread t is between sl.lock() and sl.unlock()
InGrowth(t) == pc[t] \in {"loop", "alloc", "inc_num", "inc_size", "double", "unlock"}

\* C18: on every PiggyList at most one thread is inside the growth section,
\* and it is the holder of the lock; a step of append / createNode that
\* changes num_containers, allocsize or a slot of the table is taken by the
\* holder of the lock; num_containers only goes up by one, and the slot
\* written is slot num_containers, which held no live block: no slot index
\* is written twice between two clears.
C18_GrowthExclusive ==
    /\ [](\A L \in Lists :
             variant = "PL" =>
                 /\ Cardinality({ t \in InFlight(L) : InGrowth(t) }) <= 1
                 /\ \A t \in Threads :
                       (InGrowth(t) /\ call[t].obj = L) <=> sl[L] = t)
    /\ [][ \A t \in Threads : \A L \in Lists :
             (variant = "PL" /\ pc'[t] # pc[t]) =>
                 /\ (\/ num_containers'[L] # num_containers[L]
                     \/ allocsize'[L] # allocsize[L]
                     \/ blockLookupTable'[L] # blockLookupTable[L]) =>
                       (call[t].obj = L /\ sl[L] = t /\ sl'[L] = t)
                 /\ num_containers'[L] \in {num_containers[L], num_containers[L] + 1}
                 /\ \A k \in Slots :
                       blockLookupTable'[L][k] # blockLookupTable[L][k] =>
                           /\ k = num_containers[L]
                           /\ ~Live(heap, blockLookupTable[L][k])
                           /\ Live(heap', blockLookupTable'[L][k]) ]_vars

\* C18 witness: one thread has stored a block in a slot past the first and
\* is still inside the growth section while the other waits for the lock of
\* the same list
C18_Witness ==
    \E t, u \in Threads :
        /\ variant = "PL" /\ call[t].obj = call[u].obj
        /\ pc[t] = "inc_num" /\ num_containers[call[t].obj] >= 1
        /\ pc[u] = "lock"

-----------------------------------------------------------------------------
\* the blocks a live list is responsible for: those its freeList() will
\* delete, and the one a growth step has stored but not yet counted
Held(L) ==
    IF variant = "PL"
    THEN { blockLookupTable[L][k] : k \in 0 .. (num_containers[L] - 1) }
         \cup { blockLookupTable[L][num_containers[L]] :
                  t \in { u \in InFlight(L) : pc[u] = "inc_num" } }
    ELSE { blockLookupTable[L][k] : k \in Slots } \ {NULL}

\* C19: no block is ever freed twice, and every block not yet freed is held
\* by a list that is still alive: once the lists are destroyed, every block
\* allocated has been freed exactly once.
C19_FreedOnce ==
    \A p \in 1 .. Len(heap) :
        /\ heap[p].frees <= 1
        /\ heap[p].frees = 0 => \E L \in Lists : Alive(L) /\ p \in Held(L)

\* C19 witness: a PiggyList of base size 1 was appended to, cleared twice and
\* destroyed; its one block has been freed once
C19_Witness ==
    /\ variant = "PL" /\ BLOCKBITS["a"] = 0
    /\ origin["a"] = "dead" /\ origin["b"] = "none"
    /\ nops = MaxOps /\ Len(heap) = 1 /\ heap[1].frees = 1

-----------------------------------------------------------------------------
\* C20: the iterator produced by begin() and advanced n times, with either
\* increment operator, stands at index n: at 0 right after begin(); the
\* iterator produced by end() stands at the size() of the moment end() was
\* called and stays there whatever is appended later; the advanced iterator
\* equals it exactly when both refer to the same list and n is that size;
\* every dereference on the way read get(n).
C20_Iteration ==
    /\ iters.it.bl # "unset" => iters.it.cIndex = iters.steps
    /\ iters.e.bl # "unset" => iters.e.cIndex = iters.endSize
    /\ (iters.it.bl # "unset" /\ iters.e.bl # "unset") =>
          (IterEq(iters.it, iters.e)
              <=> (iters.it.bl = iters.e.bl /\ iters.steps = iters.endSize))
    /\ iters.derefOk

\* C20 witness: end() was taken on a list of size 2, begin() was advanced
\* twice, once with each operator, and dereferenced on the way; the two
\* iterators are equal; the list has been appended to since
C20_Witness ==
    /\ iters.it.bl \in Lists /\ IterEq(iters.it, iters.e)
    /\ iters.steps = 2 /\ iters.used = {"prefix", "postfix"}
    /\ iters.seen = {0, 1}
    /\ m_size[iters.it.bl] = 3

====
